---- MODULE Spec2Model ----
(***************************************************************************)
(* A model of src/uptime.py: DailyReliabilityHistory, a file-backed array  *)
(* of fixed-width bit records, one per customer, holding a sliding window  *)
(* of daily fault bits.                                                    *)
(*                                                                         *)
(* The variables describe the backing file at `filepath` and the most      *)
(* recently constructed store object (its attributes, its file handle and  *)
(* its memory mapping).  The caller is single-threaded, so every method    *)
(* call is one atomic action.                                              *)
(*                                                                         *)
(* The word width of the source is struct.calcsize("Q") * BITS_PER_BYTE =  *)
(* 64 bits.  The model keeps the arithmetic of the source and scales the   *)
(* width down to record_duration_days bits so that every bit pattern of a  *)
(* record is reachable.  No operation of the source can overflow the word: *)
(* register shifts right before it sets the top bit.                       *)
(***************************************************************************)
EXTENDS Integers, Sequences, FiniteSets

\* ------------------------------------------------------------------ bounds

\* Width of a record in bits (64 in the source, scaled down).
record_duration_days == 4

\* Largest num_customers handed to create.
MaxCustomers == 2

\* Largest number of successful register calls on the store of SpecWindow:
\* more than record_duration_days, so that the oldest day is evicted.
MaxRegs == 5

\* Largest number of successful register calls between two creates in Spec.
MaxLifeRegs == 2

\* --------------------------------------------------------------- constants

\* struct.calcsize(WORD): the bytes one record occupies in the file.
record_width_bytes == 8

\* struct.pack(WORD, 0): the word create writes for every customer.
zero_mutant == 2 ^ 0
zero == 0

\* --------------------------------------------------------------- variables

VARIABLES
    fs,            \* the backing file: [exists, words, tail]
    attrs,         \* the attributes bound on the store object
    file_open,     \* self._file is an open file handle
    mmap_open,     \* self._mmap is a live mapping
    wordview,      \* the words of the live mapping, which self._wordview indexes
    constructed,   \* __init__ returned: the caller holds the store
    in_with,       \* the caller is inside a `with store:` block
    ret,           \* the outcome of the last call
    log,           \* history: per customer, the faults registered since create
    close_called,  \* history: close() has been called on this store object
    snapshot       \* history: the words read just before the last close()

vars == <<fs, attrs, file_open, mmap_open, wordview, constructed, in_with,
          ret, log, close_called, snapshot>>

\* ------------------------------------------------------------ bit arithmetic

RECURSIVE BitAnd(_, _)
\* Python's a & b on non-negative integers.
BitAnd(a, b) ==
    IF a = 0 \/ b = 0 THEN 0
    ELSE (a % 2) * (b % 2) + 2 * BitAnd(a \div 2, b \div 2)

RECURSIVE BitOr(_, _)
\* Python's a | b on non-negative integers.
BitOr(a, b) ==
    IF a = 0 THEN b
    ELSE IF b = 0 THEN a
    ELSE (IF a % 2 = 1 \/ b % 2 = 1 THEN 1 ELSE 0) + 2 * BitOr(a \div 2, b \div 2)

\* Python's a >> n and a << n.
ShiftRight(a, n) == a \div (2 ^ n)
ShiftLeft(a, n) == a * (2 ^ n)

\* bool(experienced_fault), as the integer it is in `b << msb`.
PyBool(v) == IF v = 0 THEN 0 ELSE 1

\* --------------------------------------------------------- the backing file

NoFile == [exists |-> FALSE, words |-> <<>>, tail |-> 0]

FileSize(f) == Len(f.words) * record_width_bytes + f.tail

\* Files that may lie at filepath before the program runs: none, an empty
\* file, and foreign files whose size is no multiple of the record width.
InitialFiles ==
    { NoFile,
      [exists |-> TRUE, words |-> <<>>, tail |-> 0],
      [exists |-> TRUE, words |-> <<>>, tail |-> 5],
      [exists |-> TRUE, words |-> <<zero>>, tail |-> 3] }

\* ------------------------------------------------------- outcomes of a call

\* The placeholder of an argument a call does not take.
NoArg == 0 - 9

\* What a call handed back: kind is "none" (returned None), "int", "bool" or
\* "raise"; err names the exception raised ("ok" when none was).
Outcome(op, customer_id, arg, kind, int, bool, err) ==
    [op |-> op, customer_id |-> customer_id, arg |-> arg,
     kind |-> kind, int |-> int, bool |-> bool, err |-> err]

Returned(op, customer_id, arg) == Outcome(op, customer_id, arg, "none", 0, FALSE, "ok")
ReturnedInt(op, customer_id, arg, n) == Outcome(op, customer_id, arg, "int", n, FALSE, "ok")
ReturnedBool(op, customer_id, arg, b) == Outcome(op, customer_id, arg, "bool", 0, b, "ok")
Raised(op, customer_id, arg, err) == Outcome(op, customer_id, arg, "raise", 0, FALSE, err)

\* ------------------------------------------------------------- construction

\* open(self._filepath, "a+b"): append mode creates a missing file, and
\* leaves an existing one as it is.
OpenAppend(f) ==
    IF f.exists THEN f ELSE [exists |-> TRUE, words |-> <<>>, tail |-> 0]

\* __init__(filepath) on file f: the file after it, the attributes it bound,
\* the resources it holds and the exception it raised.
\*   mmap(fileno, 0, ...) raises ValueError on an empty file;
\*   memoryview.cast(WORD) raises TypeError when the length is no multiple
\*   of the item size.
Construct(f) ==
    LET g == OpenAppend(f) IN
    IF FileSize(g) = 0 THEN
        [fs |-> g, attrs |-> {"_filepath", "_file"},
         file_open |-> TRUE, mmap_open |-> FALSE, wordview |-> <<>>,
         err |-> "ValueError"]
    ELSE IF FileSize(g) % record_width_bytes # 0 THEN
        [fs |-> g, attrs |-> {"_filepath", "_file", "_mmap", "_byteview"},
         file_open |-> TRUE, mmap_open |-> TRUE, wordview |-> <<>>,
         err |-> "TypeError"]
    ELSE
        [fs |-> g, attrs |-> {"_filepath", "_file", "_mmap", "_byteview", "_wordview"},
         file_open |-> TRUE, mmap_open |-> TRUE, wordview |-> g.words,
         err |-> "ok"]

\* The caller's store object holds no mapping: the store is single-writer and
\* must be released before the file is opened again.
MayConstruct == ~in_with /\ (constructed => ~mmap_open)

\* The state after __init__ ran on file f as part of call op(arg).
Constructed(op, arg, f) ==
    LET c == Construct(f) IN
    /\ fs' = c.fs
    /\ attrs' = c.attrs
    /\ file_open' = c.file_open
    /\ mmap_open' = c.mmap_open
    /\ wordview' = c.wordview
    /\ constructed' = (c.err = "ok")
    /\ close_called' = FALSE
    /\ ret' = IF c.err = "ok" THEN Returned(op, NoArg, arg)
                              ELSE Raised(op, NoArg, arg, c.err)
    /\ UNCHANGED in_with

\* DailyReliabilityHistory(filepath)
Open ==
    /\ MayConstruct
    /\ Constructed("open", NoArg, fs)
    /\ UNCHANGED <<log, snapshot>>

\* range(num_customers) writes of `zero` into a file opened "wb" (created or
\* truncated), the file closed by its with block.
WriteZeros(num_customers) ==
    [exists |-> TRUE,
     words |-> [i \in 1..(IF num_customers > 0 THEN num_customers ELSE 0) |-> zero],
     tail |-> 0]

\* DailyReliabilityHistory.create(filepath, num_customers)
Create(num_customers) ==
    /\ MayConstruct
    /\ Constructed("create", num_customers, WriteZeros(num_customers))
    /\ log' = [i \in 1..(IF num_customers > 0 THEN num_customers ELSE 0) |-> <<>>]
    /\ snapshot' = <<>>

\* -------------------------------------------------------------------- close

\* The memoryviews close() deletes before it closes the mapping.
CloseDeletes_mutant == {"_byteview"}
CloseDeletes == {"_wordview", "_byteview"}

\* self._mmap.flush(): the mapped words written to the backing file.
MmapFlush_mutant(f, words) == f
MmapFlush(f, words) == [f EXCEPT !.words = words]

\* close(), statement by statement: `del` of an unbound attribute raises
\* AttributeError, flush() of a closed mapping raises ValueError, and
\* mmap.close() raises BufferError while a memoryview still exports it.
CloseOutcome ==
    LET kept == attrs \ CloseDeletes IN
    IF "_wordview" \in CloseDeletes /\ "_wordview" \notin attrs THEN
        [err |-> "AttributeError", attrs |-> attrs, fs |-> fs,
         file_open |-> file_open, mmap_open |-> mmap_open, wordview |-> wordview]
    ELSE IF "_byteview" \in CloseDeletes /\ "_byteview" \notin attrs THEN
        [err |-> "AttributeError", attrs |-> attrs \ (CloseDeletes \ {"_byteview"}),
         fs |-> fs, file_open |-> file_open, mmap_open |-> mmap_open,
         wordview |-> wordview]
    ELSE IF ~mmap_open THEN
        [err |-> "ValueError", attrs |-> kept, fs |-> fs,
         file_open |-> file_open, mmap_open |-> mmap_open, wordview |-> wordview]
    ELSE IF kept \cap {"_wordview", "_byteview"} # {} THEN
        [err |-> "BufferError", attrs |-> kept, fs |-> MmapFlush(fs, wordview),
         file_open |-> file_open, mmap_open |-> mmap_open, wordview |-> wordview]
    ELSE
        [err |-> "ok", attrs |-> kept, fs |-> MmapFlush(fs, wordview),
         file_open |-> FALSE, mmap_open |-> FALSE, wordview |-> <<>>]

\* The state after close() ran as (part of) call op(arg).
Closed(op, arg) ==
    LET c == CloseOutcome IN
    /\ fs' = c.fs
    /\ attrs' = c.attrs
    /\ file_open' = c.file_open
    /\ mmap_open' = c.mmap_open
    /\ wordview' = c.wordview
    /\ close_called' = TRUE
    /\ snapshot' = IF c.err = "ok" THEN wordview ELSE snapshot
    /\ ret' = IF c.err = "ok" THEN Returned(op, NoArg, arg)
                              ELSE Raised(op, NoArg, arg, c.err)
    /\ UNCHANGED <<constructed, log>>

\* store.close()
Close ==
    /\ constructed
    /\ Closed("close", NoArg)
    /\ UNCHANGED in_with

\* __enter__: `with store:` hands back the store itself.
Enter ==
    /\ constructed
    /\ ~in_with
    /\ in_with' = TRUE
    /\ ret' = Returned("__enter__", NoArg, NoArg)
    /\ UNCHANGED <<fs, attrs, file_open, mmap_open, wordview, constructed,
                   log, close_called, snapshot>>

\* __exit__(exc_type, ...): the block was left, normally (exc = 0) or by an
\* exception (exc = 1); either way close() is called.
Exit(exc) ==
    /\ in_with
    /\ in_with' = FALSE
    /\ Closed("__exit__", exc)

\* ------------------------------------------------------- record operations

\* len(self._wordview)
num_customers == Len(wordview)

\* The bounds check of _customer_history.
CustomerIdInRange_mutant(customer_id, n) == customer_id < n
CustomerIdInRange(customer_id, n) == 0 <= customer_id /\ customer_id < n

\* A memoryview index: a negative index counts from the end.
PyIndex(i, n) == IF i < 0 THEN i + n ELSE i

\* The exception _customer_history(customer_id) raises ("ok": none).
\* self.num_customers raises AttributeError once _wordview is deleted.
CustomerHistoryErr(customer_id) ==
    IF "_wordview" \notin attrs THEN "AttributeError"
    ELSE IF ~CustomerIdInRange(customer_id, num_customers) THEN "ValueError"
    ELSE IF PyIndex(customer_id, num_customers) \notin 0..(num_customers - 1)
         THEN "IndexError"
    ELSE "ok"

\* self._wordview[customer_id]
_customer_history(customer_id) == wordview[PyIndex(customer_id, num_customers) + 1]

\* self._wordview[customer_id] = history
StoreWord_mutant(words, customer_id, history) ==
    [i \in 1..Len(words) |-> history]
StoreWord(words, customer_id, history) ==
    [words EXCEPT ![PyIndex(customer_id, Len(words)) + 1] = history]

RECURSIVE Registered(_)
\* The number of successful register calls since create.
Registered(l) == IF l = <<>> THEN 0 ELSE Len(Head(l)) + Registered(Tail(l))

\* The caller has register calls left: a call that raises costs none.
CanRegister(customer_id, budget) ==
    CustomerHistoryErr(customer_id) = "ok" => Registered(log) < budget

\* The word register stores: history >>= 1; history |= b << msb.
RegisterWord_mutant(history, experienced_fault) ==
    BitOr(history % (2 ^ (record_duration_days - 1)) * 2, PyBool(experienced_fault))
RegisterWord(history, experienced_fault) ==
    LET b == PyBool(experienced_fault)
        msb == record_duration_days - 1
        bit == ShiftLeft(b, msb)
    IN BitOr(ShiftRight(history, 1), bit)

\* register(customer_id, experienced_fault)
register(customer_id, experienced_fault) ==
    /\ constructed
    /\ LET err == CustomerHistoryErr(customer_id) IN
       IF err # "ok" THEN
          /\ ret' = Raised("register", customer_id, experienced_fault, err)
          /\ UNCHANGED <<wordview, log>>
       ELSE
          LET i == PyIndex(customer_id, num_customers) + 1 IN
          /\ wordview' = StoreWord(wordview, customer_id,
                             RegisterWord(_customer_history(customer_id), experienced_fault))
          /\ log' = [log EXCEPT ![i] = Append(@, PyBool(experienced_fault) = 1)]
          /\ ret' = Returned("register", customer_id, experienced_fault)
    /\ UNCHANGED <<fs, attrs, file_open, mmap_open, constructed, in_with,
                   close_called, snapshot>>

\* The bit of a record that holds the day num_days_ago days back.
BitNumber(num_days_ago) == (record_duration_days - 1) - num_days_ago

\* not bool(history & mask)
WasReliableWord(history, num_days_ago) ==
    LET mask == ShiftLeft(1, BitNumber(num_days_ago))
    IN BitAnd(history, mask) = 0

\* One pass of num_fault_days' loop body: history &= history - 1.
ClearLowestStep_mutant(history) == ShiftRight(history, 1)
ClearLowestStep(history) == BitAnd(history, history - 1)

RECURSIVE NumFaultDaysLoop(_, _)
\* while history: n += 1; history &= history - 1
NumFaultDaysLoop(history, n) ==
    IF history = 0 THEN n ELSE NumFaultDaysLoop(ClearLowestStep(history), n + 1)

\* One pass of longest_fault_duration_days' loop body: history &= history >> 1.
ShrinkRunsStep_mutant(history) == ShiftRight(history, 1)
ShrinkRunsStep(history) == BitAnd(history, ShiftRight(history, 1))

RECURSIVE LongestFaultLoop(_, _)
\* while history: n += 1; history &= history >> 1
LongestFaultLoop(history, n) ==
    IF history = 0 THEN n ELSE LongestFaultLoop(ShrinkRunsStep(history), n + 1)

\* A call that only reads: nothing but ret changes.
ReadOnly ==
    UNCHANGED <<fs, attrs, file_open, mmap_open, wordview, constructed, in_with,
                log, close_called, snapshot>>

\* was_reliable(customer_id, num_days_ago)
was_reliable(customer_id, num_days_ago) ==
    /\ constructed
    /\ LET err == CustomerHistoryErr(customer_id) IN
       ret' = IF err # "ok" THEN
                 Raised("was_reliable", customer_id, num_days_ago, err)
              ELSE IF ~(0 <= num_days_ago /\ num_days_ago < record_duration_days) THEN
                 Raised("was_reliable", customer_id, num_days_ago, "ValueError")
              ELSE
                 ReturnedBool("was_reliable", customer_id, num_days_ago,
                     WasReliableWord(_customer_history(customer_id), num_days_ago))
    /\ ReadOnly

\* num_fault_days(customer_id)
num_fault_days(customer_id) ==
    /\ constructed
    /\ LET err == CustomerHistoryErr(customer_id) IN
       ret' = IF err # "ok" THEN
                 Raised("num_fault_days", customer_id, NoArg, err)
              ELSE
                 ReturnedInt("num_fault_days", customer_id, NoArg,
                     NumFaultDaysLoop(_customer_history(customer_id), 0))
    /\ ReadOnly

\* longest_fault_duration_days(customer_id)
longest_fault_duration_days(customer_id) ==
    /\ constructed
    /\ LET err == CustomerHistoryErr(customer_id) IN
       ret' = IF err # "ok" THEN
                 Raised("longest_fault_duration_days", customer_id, NoArg, err)
              ELSE
                 ReturnedInt("longest_fault_duration_days", customer_id, NoArg,
                     LongestFaultLoop(_customer_history(customer_id), 0))
    /\ ReadOnly

\* ------------------------------------------------------------ specification

\* The arguments the caller passes: every valid value, and the nearest
\* invalid ones on both sides.
CustomerIds == -1..MaxCustomers
DaysAgo == -1..record_duration_days
FaultValues == {0, 1, 2}
CustomerCounts == -1..MaxCustomers

Init ==
    /\ fs \in InitialFiles
    /\ attrs = {}
    /\ file_open = FALSE
    /\ mmap_open = FALSE
    /\ wordview = <<>>
    /\ constructed = FALSE
    /\ in_with = FALSE
    /\ ret = Returned("start", NoArg, NoArg)
    /\ log = <<>>
    /\ close_called = FALSE
    /\ snapshot = <<>>

Next ==
    \/ Open
    \/ \E n \in CustomerCounts : Create(n)
    \/ Close
    \/ Enter
    \/ \E exc \in {0, 1} : Exit(exc)
    \/ \E c \in CustomerIds, f \in FaultValues :
          CanRegister(c, MaxLifeRegs) /\ register(c, f)
    \/ \E c \in CustomerIds, d \in DaysAgo : was_reliable(c, d)
    \/ \E c \in CustomerIds : num_fault_days(c)
    \/ \E c \in CustomerIds : longest_fault_duration_days(c)

Spec == Init /\ [][Next]_vars

\* The store right after create(filepath, n) on a fresh path, and the calls
\* that read and rotate its records.
InitWindow ==
    \E n \in 1..MaxCustomers :
        LET c == Construct(WriteZeros(n)) IN
        /\ fs = c.fs
        /\ attrs = c.attrs
        /\ file_open = c.file_open
        /\ mmap_open = c.mmap_open
        /\ wordview = c.wordview
        /\ constructed = TRUE
        /\ in_with = FALSE
        /\ ret = Returned("create", NoArg, n)
        /\ log = [i \in 1..n |-> <<>>]
        /\ close_called = FALSE
        /\ snapshot = <<>>

NextWindow ==
    \/ \E c \in CustomerIds, f \in FaultValues :
          CanRegister(c, MaxRegs) /\ register(c, f)
    \/ \E c \in CustomerIds, d \in DaysAgo : was_reliable(c, d)
    \/ \E c \in CustomerIds : num_fault_days(c)
    \/ \E c \in CustomerIds : longest_fault_duration_days(c)

SpecWindow == InitWindow /\ [][NextWindow]_vars

\* ------------------------------------------- what the claims are stated in

\* The store is Open: the caller holds it and its mapping is live.
IsOpen == constructed /\ mmap_open /\ "_wordview" \in attrs

\* The valid customer ids of the open store.
Customers == 0..(num_customers - 1)
Days == 0..(record_duration_days - 1)

\* Bit i of word w, read off its binary expansion.
Bit(w, i) == (w \div (2 ^ i)) % 2

\* The positions set in w.
SetBits(w) == {i \in Days : Bit(w, i) = 1}

\* The length of the longest run of consecutive set bits of w.
LongestRun(w) ==
    CHOOSE len \in 0..record_duration_days :
        /\ \E lo \in 0..(record_duration_days - len) :
              \A i \in lo..(lo + len - 1) : Bit(w, i) = 1
        /\ \A longer \in (len + 1)..record_duration_days :
              \A lo \in 0..(record_duration_days - longer) :
                 \E i \in lo..(lo + longer - 1) : Bit(w, i) = 0

\* The (k+1)-th most recent register call of a customer was a fault.
FaultDaysAgo(l, k) == Len(l) >= k + 1 /\ l[Len(l) - k]

\* The faults among the most recent min(Len(l), record_duration_days) calls.
FaultsInWindow(l) == Cardinality({k \in Days : FaultDaysAgo(l, k)})

RecordOps == {"register", "was_reliable", "num_fault_days", "longest_fault_duration_days"}
QueryOps == {"was_reliable", "num_fault_days", "longest_fault_duration_days"}

\* The call recorded in r was made with an argument out of its range.
OutOfRange(r) ==
    \/ ~(0 <= r.customer_id /\ r.customer_id < num_customers)
    \/ r.op = "was_reliable" /\ ~(0 <= r.arg /\ r.arg < record_duration_days)

\* --------------------------------------------------------------- the claims

\* C1: in every state reached from create by register calls, was_reliable(c, k)
\* is false exactly when at least k+1 register calls were made for c and the
\* (k+1)-th most recent had experienced_fault true; a was_reliable call
\* returns that value.
C1_SlidingWindow ==
    /\ \A c \in Customers : \A k \in Days :
          WasReliableWord(_customer_history(c), k) = ~FaultDaysAgo(log[c + 1], k)
    /\ (ret.op = "was_reliable" /\ ret.kind = "bool") =>
          ret.bool = ~FaultDaysAgo(log[ret.customer_id + 1], ret.arg)

\* C1's case: after more than record_duration_days register calls for a
\* customer, was_reliable reports a fault for a day that is not today.
C1_Witness ==
    /\ ret.op = "was_reliable" /\ ret.kind = "bool" /\ ~ret.bool
    /\ ret.arg = record_duration_days - 1
    /\ Len(log[ret.customer_id + 1]) > record_duration_days
    /\ ~FaultDaysAgo(log[ret.customer_id + 1], 0)

\* C2: longest_fault_duration_days(c) is the length of the longest run of
\* consecutive set bits of c's record (0 for the all-zero record), which is
\* also the number of passes its loop makes.
C2_LongestRun ==
    /\ \A c \in Customers :
          LongestFaultLoop(_customer_history(c), 0) = LongestRun(_customer_history(c))
    /\ (ret.op = "longest_fault_duration_days" /\ ret.kind = "int") =>
          ret.int = LongestRun(_customer_history(ret.customer_id))

\* C2's case: a record with a run of two faults and a separate single fault.
C2_Witness ==
    /\ ret.op = "longest_fault_duration_days" /\ ret.kind = "int"
    /\ ret.int = 2
    /\ Cardinality(SetBits(_customer_history(ret.customer_id))) = 3

\* C3: num_fault_days(c) is the number of faults among the most recent
\* min(n, record_duration_days) register calls for c, the population count of
\* the record, and never exceeds record_duration_days.
C3_NumFaultDays ==
    /\ \A c \in Customers :
          /\ NumFaultDaysLoop(_customer_history(c), 0) = FaultsInWindow(log[c + 1])
          /\ NumFaultDaysLoop(_customer_history(c), 0)
                = Cardinality(SetBits(_customer_history(c)))
          /\ NumFaultDaysLoop(_customer_history(c), 0) <= record_duration_days
    /\ (ret.op = "num_fault_days" /\ ret.kind = "int") =>
          ret.int = FaultsInWindow(log[ret.customer_id + 1])

\* C3's case: record_duration_days + 1 register(c, true) calls, and
\* num_fault_days(c) is record_duration_days.
C3_Witness ==
    /\ ret.op = "num_fault_days" /\ ret.kind = "int"
    /\ ret.int = record_duration_days
    /\ Len(log[ret.customer_id + 1]) = record_duration_days + 1
    /\ \A j \in 1..(record_duration_days + 1) : log[ret.customer_id + 1][j]

\* C4: right after a create(path, num_customers) that returned, the store
\* has num_customers records, and for each of them num_fault_days is 0 and
\* was_reliable is true for every day of the window.
C4_CreateAllReliable ==
    (ret.op = "create" /\ ret.err = "ok") =>
        /\ IsOpen
        /\ num_customers = ret.arg
        /\ \A c \in Customers :
              /\ NumFaultDaysLoop(_customer_history(c), 0) = 0
              /\ \A d \in Days : WasReliableWord(_customer_history(c), d)

\* C4's case: create returned a store of several customers.
C4_Witness ==
    ret.op = "create" /\ ret.err = "ok" /\ num_customers = MaxCustomers /\ IsOpen

\* C5: on an open store, a record operation called with a customer id outside
\* 0..num_customers-1, or was_reliable with a day outside the window, raises
\* the out-of-range error (ValueError), returns no value, and leaves every
\* record as it was.
C5_OutOfRangeFails ==
    [][(ret'.op \in RecordOps /\ IsOpen /\ OutOfRange(ret')) =>
          /\ ret'.kind = "raise"
          /\ ret'.err = "ValueError"
          /\ wordview' = wordview
          /\ fs' = fs]_vars

\* C5's case: register(num_customers, fault) was refused on a store that
\* holds a registered fault.
C5_Witness ==
    /\ IsOpen
    /\ ret.op = "register" /\ ret.customer_id = num_customers
    /\ ret.err = "ValueError"
    /\ \E c \in Customers : _customer_history(c) # 0

\* C6: after register calls, close() and then open() of the same path, the
\* store has the same num_customers and every query returns what it returned
\* just before close().
C6_Persistence ==
    (ret.op = "open" /\ ret.err = "ok" /\ snapshot # <<>>) =>
        /\ IsOpen
        /\ num_customers = Len(snapshot)
        /\ \A c \in Customers :
              /\ \A d \in Days :
                    WasReliableWord(_customer_history(c), d)
                       = WasReliableWord(snapshot[c + 1], d)
              /\ NumFaultDaysLoop(_customer_history(c), 0)
                    = NumFaultDaysLoop(snapshot[c + 1], 0)
              /\ LongestFaultLoop(_customer_history(c), 0)
                    = LongestFaultLoop(snapshot[c + 1], 0)

\* C6's case: a store that held a registered fault was closed and reopened.
C6_Witness ==
    /\ ret.op = "open" /\ ret.err = "ok"
    /\ snapshot # <<>>
    /\ \E i \in 1..Len(snapshot) : snapshot[i] # 0

\* C7: once close() has been called on a store object, the object stays
\* closed, every later register, was_reliable, num_fault_days,
\* longest_fault_duration_days and close on it raises (AttributeError, the
\* illegal-state error) instead of returning, and no record changes; and an
\* open store stops being open only by close().
C7_ClosedIsTerminal ==
    [][/\ (close_called /\ ret'.op \notin {"open", "create"}) =>
             /\ close_called'
             /\ ~IsOpen'
             /\ (ret'.op \in RecordOps \cup {"close", "__exit__"}) =>
                   (ret'.kind = "raise" /\ ret'.err = "AttributeError")
             /\ wordview' = wordview
             /\ fs' = fs
       /\ (IsOpen /\ ~IsOpen') => ret'.op \in {"close", "__exit__"}]_vars

\* C7's case: register was called on a closed store.
C7_Witness ==
    /\ close_called /\ ~IsOpen
    /\ ret.op = "register" /\ ret.err = "AttributeError"

\* C8: open(path) raises whenever the file is missing or its size is no
\* positive multiple of record_width_bytes, and then no store is open and the
\* file system is as it was (a missing file is not created); otherwise it
\* returns a store with num_customers = file_size / record_width_bytes.
C8_OpenValidates ==
    [][ret'.op = "open" =>
          IF ~fs.exists \/ FileSize(fs) = 0 \/ FileSize(fs) % record_width_bytes # 0
          THEN ret'.kind = "raise" /\ ~IsOpen' /\ fs' = fs
          ELSE /\ ret'.err = "ok" /\ IsOpen'
               /\ num_customers' = FileSize(fs) \div record_width_bytes]_vars

\* C9: every acquisition of the file handle and the mapping is followed by
\* their release: leaving a `with store:` block, normally or by an exception,
\* calls close(), which releases an open store; and when open or create fails
\* part-way, the failed store holds no file handle and no mapping.
C9_GuaranteedRelease ==
    [][/\ (in_with /\ ~in_with') =>
             /\ ret'.op = "__exit__"
             /\ close_called'
             /\ IsOpen => (~file_open' /\ ~mmap_open')
       /\ (ret'.op \in {"open", "create"} /\ ret'.kind = "raise") =>
             (~file_open' /\ ~mmap_open')]_vars

\* C10: a register call that returns changes only the record of its
\* customer, keeps the number of records, and stores a value within
\* 0 .. 2^record_duration_days - 1; the three queries change no record.
C10_Frame ==
    [][/\ (ret'.op = "register" /\ ret'.err = "ok") =>
             /\ Len(wordview') = Len(wordview)
             /\ \A i \in 1..Len(wordview) :
                   i # ret'.customer_id + 1 => wordview'[i] = wordview[i]
             /\ wordview'[ret'.customer_id + 1] \in 0..(2 ^ record_duration_days - 1)
       /\ ret'.op \in QueryOps => (wordview' = wordview /\ fs' = fs)]_vars

\* C10's case: a register call on a store where another customer's record
\* holds a fault.
C10_Witness ==
    /\ ret.op = "register" /\ ret.err = "ok"
    /\ \E i \in 1..Len(wordview) :
          i # ret.customer_id + 1 /\ wordview[i] # 0

====
